---------------------------- MODULE Spec2Model ----------------------------
(***************************************************************************)
(* Model of the "exclusive registration" form of joaobotoni/app.           *)
(*                                                                         *)
(* Strings that the code inspects character by character (field values)    *)
(* are sequences of one-character strings; strings the code only copies    *)
(* (modal titles, messages) are TLA+ strings.                              *)
(***************************************************************************)
EXTENDS Integers, Sequences, FiniteSets, TLC

VARIABLES
    arg,        \* pure-function harness: the argument of the call
    ret,        \* pure-function harness: the value returned
    done,       \* pure-function harness: TRUE once the function was called
    variant,    \* which screen: "index" (ExclusiveRegisterForm), "registration",
                \* "registrationPT" or "useForm"
    mounted,    \* TRUE while the component that owns the state is on screen
    formData,   \* useState<FormData>: name, phone, email, password
    formErrors, \* useState<FormErrors>: entries in key insertion order
    loading,    \* useState<boolean>
    modal,      \* useState<{isVisible, title, message}>
    pending,    \* number of submission timers in flight
    calls,      \* the data of the submitForm calls in flight, oldest first
    lastOp,     \* history: the last handler that ran, with its inputs
    successSeen, \* history, since the last dismissal: "no" success outcome,
                \* a success outcome raised "last", or one "overwritten" since
    failedUnedited \* history: the fields that failed at the last validation
                \* pass and whose value was not written since

vars == <<arg, ret, done, variant, mounted, formData, formErrors, loading,
          modal, pending, calls, lastOp, successSeen, failedUnedited>>

ctlVars == <<variant, mounted, formData, formErrors, loading, modal, pending,
             calls, lastOp, successSeen, failedUnedited>>

-----------------------------------------------------------------------------
(* Bounds of the model *)

MaxDigitLen == 12
MaxMixedLen == 5
MaxEmailLen == 6
MaxShortLen == 1
MaxPasswordLen == 6
MaxPending == 2

\* The clock of the submitForm harness: the milliseconds of one step, and the
\* time at which it stops.
ClockStep == 500
MaxElapsed == 3000

-----------------------------------------------------------------------------
(* Strings as character sequences *)

Digits == {"0", "1", "2", "3", "4", "5", "6", "7", "8", "9"}

Whitespace == {" ", "\t", "\n"}

IsDigit(c) == c \in Digits

IsSpace(c) == c \in Whitespace

Min(a, b) == IF a <= b THEN a ELSE b

AllSeqs(S, n) == UNION {[1..k -> S] : k \in 0..n}

\* String.prototype.slice(b, e) for 0 <= b, 0 <= e: both ends clamp to the length.
Slice(s, b, e) == SubSeq(s, Min(b, Len(s)) + 1, Min(e, Len(s)))

\* String.prototype.slice(b): to the end of the string.
SliceFrom(s, b) == Slice(s, b, Len(s))

\* text.replace(/\D/g, ''): every character that is not a digit is removed.
StripNonDigits(text) == SelectSeq(text, IsDigit)

\* String.prototype.trim(): leading and trailing whitespace removed.
RECURSIVE TrimStart(_)
TrimStart(s) ==
    IF s # <<>> /\ IsSpace(Head(s)) THEN TrimStart(Tail(s)) ELSE s

RECURSIVE TrimEnd(_)
TrimEnd(s) ==
    IF s # <<>> /\ IsSpace(s[Len(s)]) THEN TrimEnd(SubSeq(s, 1, Len(s) - 1)) ELSE s

Trim(s) == TrimEnd(TrimStart(s))

\* JavaScript truthiness of a string: the empty string is falsy.
Truthy(s) == Len(s) > 0

-----------------------------------------------------------------------------
(* formatPhone *)

formatPhoneNoTruncate(text) ==
    LET cleaned == StripNonDigits(text) IN
    IF Len(cleaned) <= 2 THEN cleaned
    ELSE IF Len(cleaned) <= 6
         THEN <<"(">> \o Slice(cleaned, 0, 2) \o <<")", " ">> \o SliceFrom(cleaned, 2)
         ELSE <<"(">> \o Slice(cleaned, 0, 2) \o <<")", " ">> \o Slice(cleaned, 2, 7)
              \o <<"-">> \o SliceFrom(cleaned, 7)

formatPhoneKeepRaw(text) ==
    IF Len(text) <= 2 THEN text
    ELSE IF Len(text) <= 6
         THEN <<"(">> \o Slice(text, 0, 2) \o <<")", " ">> \o SliceFrom(text, 2)
         ELSE <<"(">> \o Slice(text, 0, 2) \o <<")", " ">> \o Slice(text, 2, 7)
              \o <<"-">> \o Slice(text, 7, 11)

formatPhoneShiftedSuffix(text) ==
    LET cleaned == StripNonDigits(text) IN
    IF Len(cleaned) <= 2 THEN cleaned
    ELSE IF Len(cleaned) <= 6
         THEN <<"(">> \o Slice(cleaned, 0, 2) \o <<")", " ">> \o SliceFrom(cleaned, 2)
         ELSE <<"(">> \o Slice(cleaned, 0, 2) \o <<")", " ">> \o Slice(cleaned, 2, 7)
              \o <<"-">> \o Slice(cleaned, 8, 12)

formatPhone(text) ==
    LET cleaned == StripNonDigits(text) IN
    IF Len(cleaned) <= 2 THEN cleaned
    ELSE IF Len(cleaned) <= 6
         THEN <<"(">> \o Slice(cleaned, 0, 2) \o <<")", " ">> \o SliceFrom(cleaned, 2)
         ELSE <<"(">> \o Slice(cleaned, 0, 2) \o <<")", " ">> \o Slice(cleaned, 2, 7)
              \o <<"-">> \o Slice(cleaned, 7, 11)

-----------------------------------------------------------------------------
(* validateEmail: emailRegex.test(email) for /^[^\s@]+@[^\s@]+\.[^\s@]+$/     *)
(*                                                                         *)
(* The regular expression is run as its automaton.  Positions:             *)
(*   0 before the local part      1 inside the local part  [^\s@]+         *)
(*   2 after "@"                  3 inside the domain      [^\s@]+         *)
(*   4 after the literal "."      5 inside the last part   [^\s@]+         *)
(* "." is itself in [^\s@], so in position 3 a "." may continue the domain  *)
(* or be the literal dot: the automaton keeps the set of possible          *)
(* positions, which is what backtracking explores.                         *)

\* The character class [^\s@].
InClass(c) == ~IsSpace(c) /\ c # "@"

RegexStep(q, c) ==
    CASE q = 0 -> IF InClass(c) THEN {1} ELSE {}
      [] q = 1 -> (IF InClass(c) THEN {1} ELSE {}) \cup (IF c = "@" THEN {2} ELSE {})
      [] q = 2 -> IF InClass(c) THEN {3} ELSE {}
      [] q = 3 -> (IF InClass(c) THEN {3} ELSE {}) \cup (IF c = "." THEN {4} ELSE {})
      [] q = 4 -> IF InClass(c) THEN {5} ELSE {}
      [] q = 5 -> IF InClass(c) THEN {5} ELSE {}

RECURSIVE RegexRun(_, _)
RegexRun(qs, s) ==
    IF s = <<>> THEN qs
    ELSE RegexRun(UNION {RegexStep(q, Head(s)) : q \in qs}, Tail(s))

\* Without the final "$": a match of any prefix is a match.
RECURSIVE RegexRunUnanchored(_, _)
RegexRunUnanchored(qs, s) ==
    IF 5 \in qs THEN qs
    ELSE IF s = <<>> THEN qs
    ELSE RegexRunUnanchored(UNION {RegexStep(q, Head(s)) : q \in qs}, Tail(s))

validateEmailUnanchored(email) == 5 \in RegexRunUnanchored({0}, email)

validateEmail(email) == 5 \in RegexRun({0}, email)

-----------------------------------------------------------------------------
(* validateForm                                                            *)
(*                                                                         *)
(* A FormErrors object is the sequence of its entries in key insertion     *)
(* order (the order Object.keys and Object.values return).  The result of  *)
(* validateForm is [isNull, errors]: isNull stands for the null returned   *)
(* when Object.keys(errors).length is 0.                                   *)

MsgNameRequired == "Nome é obrigatório"
MsgPhoneRequired == "Telefone é obrigatório"
MsgEmailRequired == "Email é obrigatório"
MsgEmailInvalid == "Email inválido"
MsgPasswordRequired == "Senha é obrigatória"
MsgPasswordShort == "Senha deve ter pelo menos 6 caracteres"

PasswordMinLength == 6

\* Object.keys(errors), as a set.
Keys(errors) == {errors[i].key : i \in 1..Len(errors)}

\* errors[key]
MsgOf(errors, key) ==
    LET i == CHOOSE i \in 1..Len(errors) : errors[i].key = key IN errors[i].msg

\* errors[key] = msg: a new key goes last, an existing key keeps its place.
SetKey(errors, key, msg) ==
    IF key \in Keys(errors)
    THEN [i \in 1..Len(errors) |->
            IF errors[i].key = key THEN [key |-> key, msg |-> msg] ELSE errors[i]]
    ELSE Append(errors, [key |-> key, msg |-> msg])

\* delete errors[key]
DeleteKey(errors, key) ==
    LET keep(e) == e.key # key IN SelectSeq(errors, keep)

\* Object.values(errors)
Values(errors) == [i \in 1..Len(errors) |-> errors[i].msg]

\* Object.keys(errors).length > 0 ? errors : null
OrNull(errors) == [isNull |-> Len(errors) = 0, errors |-> IF Len(errors) > 0 THEN errors ELSE <<>>]

\* A slip in the phone rule: it tests data.name.
validateFormPhoneFromName(data) ==
    LET e1 == IF ~Truthy(Trim(data.name)) THEN SetKey(<<>>, "name", MsgNameRequired) ELSE <<>>
        e2 == IF ~Truthy(Trim(data.name)) THEN SetKey(e1, "phone", MsgPhoneRequired) ELSE e1
        e3 == IF ~Truthy(Trim(data.email)) THEN SetKey(e2, "email", MsgEmailRequired)
              ELSE IF ~validateEmail(data.email) THEN SetKey(e2, "email", MsgEmailInvalid)
              ELSE e2
        e4 == IF ~Truthy(Trim(data.password)) THEN SetKey(e3, "password", MsgPasswordRequired)
              ELSE IF Len(data.password) < PasswordMinLength
                   THEN SetKey(e3, "password", MsgPasswordShort)
              ELSE e3
    IN  OrNull(e4)

\* A slip in the password rule: the length of the trimmed password is tested.
validateFormTrimmedLength(data) ==
    LET e1 == IF ~Truthy(Trim(data.name)) THEN SetKey(<<>>, "name", MsgNameRequired) ELSE <<>>
        e2 == IF ~Truthy(Trim(data.phone)) THEN SetKey(e1, "phone", MsgPhoneRequired) ELSE e1
        e3 == IF ~Truthy(Trim(data.email)) THEN SetKey(e2, "email", MsgEmailRequired)
              ELSE IF ~validateEmail(data.email) THEN SetKey(e2, "email", MsgEmailInvalid)
              ELSE e2
        e4 == IF ~Truthy(Trim(data.password)) THEN SetKey(e3, "password", MsgPasswordRequired)
              ELSE IF Len(Trim(data.password)) < PasswordMinLength
                   THEN SetKey(e3, "password", MsgPasswordShort)
              ELSE e3
    IN  OrNull(e4)

\* A slip: the second rule of email and password is an if of its own, with no
\* test that the value is there.
validateFormOverwrites(data) ==
    LET e1 == IF ~Truthy(Trim(data.name)) THEN SetKey(<<>>, "name", MsgNameRequired) ELSE <<>>
        e2 == IF ~Truthy(Trim(data.phone)) THEN SetKey(e1, "phone", MsgPhoneRequired) ELSE e1
        e3 == IF ~Truthy(Trim(data.email)) THEN SetKey(e2, "email", MsgEmailRequired) ELSE e2
        e4 == IF ~validateEmail(data.email) THEN SetKey(e3, "email", MsgEmailInvalid) ELSE e3
        e5 == IF ~Truthy(Trim(data.password))
              THEN SetKey(e4, "password", MsgPasswordRequired) ELSE e4
        e6 == IF Len(data.password) < PasswordMinLength
              THEN SetKey(e5, "password", MsgPasswordShort) ELSE e5
    IN  OrNull(e6)

\* utils/validation.ts: the second rule of email and password is an else-if.
validateForm(data) ==
    LET e1 == IF ~Truthy(Trim(data.name)) THEN SetKey(<<>>, "name", MsgNameRequired) ELSE <<>>
        e2 == IF ~Truthy(Trim(data.phone)) THEN SetKey(e1, "phone", MsgPhoneRequired) ELSE e1
        e3 == IF ~Truthy(Trim(data.email)) THEN SetKey(e2, "email", MsgEmailRequired)
              ELSE IF ~validateEmail(data.email) THEN SetKey(e2, "email", MsgEmailInvalid)
              ELSE e2
        e4 == IF ~Truthy(Trim(data.password)) THEN SetKey(e3, "password", MsgPasswordRequired)
              ELSE IF Len(data.password) < PasswordMinLength
                   THEN SetKey(e3, "password", MsgPasswordShort)
              ELSE e3
    IN  OrNull(e4)

\* A slip: the length rule of the password is not guarded by
\* data.password.trim().
validateFormHookUnguarded(data) ==
    LET e1 == IF ~Truthy(Trim(data.name)) THEN SetKey(<<>>, "name", MsgNameRequired) ELSE <<>>
        e2 == IF ~Truthy(Trim(data.phone)) THEN SetKey(e1, "phone", MsgPhoneRequired) ELSE e1
        e3 == IF ~Truthy(Trim(data.email)) THEN SetKey(e2, "email", MsgEmailRequired) ELSE e2
        e4 == IF Truthy(Trim(data.email)) /\ ~validateEmail(data.email)
              THEN SetKey(e3, "email", MsgEmailInvalid) ELSE e3
        e5 == IF ~Truthy(Trim(data.password))
              THEN SetKey(e4, "password", MsgPasswordRequired) ELSE e4
        e6 == IF Len(data.password) < PasswordMinLength
              THEN SetKey(e5, "password", MsgPasswordShort) ELSE e5
    IN  OrNull(e6)

\* hooks/useFormValidation.ts and index.tsx: six independent ifs, in order.
validateFormHook(data) ==
    LET e1 == IF ~Truthy(Trim(data.name)) THEN SetKey(<<>>, "name", MsgNameRequired) ELSE <<>>
        e2 == IF ~Truthy(Trim(data.phone)) THEN SetKey(e1, "phone", MsgPhoneRequired) ELSE e1
        e3 == IF ~Truthy(Trim(data.email)) THEN SetKey(e2, "email", MsgEmailRequired) ELSE e2
        e4 == IF Truthy(Trim(data.email)) /\ ~validateEmail(data.email)
              THEN SetKey(e3, "email", MsgEmailInvalid) ELSE e3
        e5 == IF ~Truthy(Trim(data.password))
              THEN SetKey(e4, "password", MsgPasswordRequired) ELSE e4
        e6 == IF Truthy(Trim(data.password)) /\ Len(data.password) < PasswordMinLength
              THEN SetKey(e5, "password", MsgPasswordShort) ELSE e5
    IN  OrNull(e6)

-----------------------------------------------------------------------------
(* The rules of the four fields, stated on the texts themselves (not run   *)
(* through the code): the vocabulary of the claims.                        *)

Fields == <<"name", "phone", "email", "password">>

Count(t, c) == Cardinality({i \in 1..Len(t) : t[i] = c})

HasSpace(t) == \E i \in 1..Len(t) : t[i] \in Whitespace

\* local "@" domain "." tld, each part one or more characters that are neither
\* whitespace nor "@": position i holds the "@", position j the ".".
HasEmailShape(t) ==
    \E i \in 2..Len(t), j \in 4..Len(t) :
        /\ i + 1 < j /\ j < Len(t)
        /\ t[i] = "@"
        /\ t[j] = "."
        /\ \A k \in (1..Len(t)) \ {i} : t[k] # "@" /\ t[k] \notin Whitespace

AllSpaces(t) == \A i \in 1..Len(t) : t[i] \in Whitespace

\* The rule of each field as C5 states it: password "non-empty and length >= 6".
StatedRule(field, value) ==
    CASE field = "name" -> ~AllSpaces(value)
      [] field = "phone" -> ~AllSpaces(value)
      [] field = "email" -> value # <<>> /\ HasEmailShape(value)
      [] field = "password" -> value # <<>> /\ Len(value) >= 6

\* The rule of each field with the password required after trimming.
FieldRule(field, value) ==
    CASE field = "name" -> ~AllSpaces(value)
      [] field = "phone" -> ~AllSpaces(value)
      [] field = "email" -> value # <<>> /\ HasEmailShape(value)
      [] field = "password" -> ~AllSpaces(value) /\ Len(value) >= 6

-----------------------------------------------------------------------------
(* The screen: ExclusiveRegisterForm of index.tsx (variant "index") and     *)
(* the two RegistrationForm components built on useFormLogic and useApi:    *)
(* the one with English titles (variant "registration") and the one with    *)
(* Portuguese titles (variant "registrationPT").                            *)

Variants == {"index", "registration", "registrationPT"}

\* The screens whose titles and messages are in Portuguese.
Portuguese == {"index", "registrationPT", "useForm"}

\* The screens that submit through useApi.submitForm, which can reject.
Rejecting == {"registration", "registrationPT"}

FieldSet == {"name", "phone", "email", "password"}

EmptyForm == [name |-> <<>>, phone |-> <<>>, email |-> <<>>, password |-> <<>>]

HiddenModal == [isVisible |-> FALSE, title |-> "", message |-> ""]

NoOp == [op |-> "init", field |-> "", raw |-> <<>>]

\* The state after the first render: the useState initial values.
CtlIdle(v) ==
    /\ variant = v
    /\ mounted = TRUE
    /\ formData = EmptyForm
    /\ formErrors = <<>>
    /\ loading = FALSE
    /\ modal = HiddenModal
    /\ pending = 0
    /\ calls = <<>>
    /\ lastOp = NoOp
    /\ successSeen = "no"
    /\ failedUnedited = {}

ValidationTitle(v) == IF v \in Portuguese THEN "Erro de Validação" ELSE "Validation Error"

SuccessTitle(v) == IF v \in Portuguese THEN "Sucesso!" ELSE "Success!"

SuccessMessage(v) ==
    IF v \in Portuguese THEN "Sua conta foi criada com sucesso. Bem-vindo!"
    ELSE "Your account has been created successfully. Welcome!"

ServerErrorTitle(v) == IF v \in Portuguese THEN "Erro no Servidor" ELSE "Server Error"

ServerErrorMessage(v) ==
    IF v \in Portuguese THEN "Não foi possível criar sua conta. Tente novamente."
    ELSE "Unable to create your account. Please try again."

\* A slip: a notification that is still visible is not overwritten.
showModalUnlessVisible(title, message) ==
    IF modal.isVisible THEN modal
    ELSE [isVisible |-> TRUE, title |-> title, message |-> message]

\* showModal(title, message) / displayModal(title, message)
showModal(title, message) == [isVisible |-> TRUE, title |-> title, message |-> message]

\* A slip: the phone is stored as typed, like the other fields.
StoredValueRaw(field, value) == value

\* A slip: the phone is stored as its digits, without the mask.
StoredValueCleaned(field, value) ==
    IF field = "phone" THEN StripNonDigits(value) ELSE value

\* [field]: field === "phone" ? formatPhone(value) : value
StoredValue(field, value) == IF field = "phone" THEN formatPhone(value) ELSE value

\* A slip: the whole error record is dropped on an edit.
ClearedErrorsAll(errors, field) == <<>>

\* A slip: the error entry of the edited field is kept.
ClearedErrorsNone(errors, field) == errors

\* setFormErrors(prev => { const newErrors = {...prev}; delete newErrors[field]; ... })
ClearedErrors(errors, field) == DeleteKey(errors, field)

\* The texts the user enters, per field.
RawInputs(field) ==
    CASE field = "name" -> { <<>>, <<" ">>, <<"J", "o">> }
      [] field = "phone" ->
            { <<>>,
              <<"1", "1", "9", "8", "7", "6", "5", "4", "3", "2", "1">>,
              <<"(", "1", "1", ")", " ", "9", "8", "7", "6", "5", "-", "4", "3", "2", "1", "0">> }
      [] field = "email" -> { <<>>, <<"a", "@", "b", ".", "c">>, <<"a", "@", "b">> }
      [] field = "password" ->
            { <<>>,
              <<"1", "2", "3", "4", "5", "6">>,
              <<"1", "2", "3", "4", "5">> }

Init ==
    /\ arg = <<>>
    /\ ret = <<>>
    /\ done = FALSE
    /\ \E v \in Variants : CtlIdle(v)

\* onChangeText of one of the four inputs: updateField(field, value).
UpdateField(field, value) ==
    /\ mounted
    /\ formData' = [formData EXCEPT ![field] = StoredValue(field, value)]
    /\ formErrors' = ClearedErrors(formErrors, field)
    /\ lastOp' = [op |-> "updateField", field |-> field, raw |-> value]
    /\ failedUnedited' = failedUnedited \ {field}
    /\ UNCHANGED <<variant, mounted, loading, modal, pending>>

\* handleSubmit / handleFormSubmission up to the await: validation, then either
\* the error branch (errors stored, modal shown, return) or setLoading(true) and
\* the start of the 2500 ms timer.
HandleSubmit(how) ==
    LET validationErrors == validateFormHook(formData) IN
    /\ mounted
    /\ lastOp' = [op |-> how, field |-> "", raw |-> <<>>]
    /\ failedUnedited' = {f \in FieldSet : ~FieldRule(f, formData[f])}
    /\ IF ~validationErrors.isNull
       THEN /\ formErrors' = validationErrors.errors
            /\ modal' = showModal(ValidationTitle(variant),
                                   Values(validationErrors.errors)[1])
            /\ UNCHANGED <<variant, mounted, formData, loading, pending>>
       ELSE /\ pending < MaxPending
            /\ loading' = TRUE
            /\ pending' = pending + 1
            /\ UNCHANGED <<variant, mounted, formData, formErrors, modal>>

\* onPress of the submit button, which is disabled while loading.
PressSubmit ==
    /\ ~loading
    /\ HandleSubmit("pressSubmit")

\* onSubmitEditing of the password input: no condition on loading.
SubmitEditing == HandleSubmit("submitEditing")

\* A slip: the success modal is shown and the loading flag is left up.
SubmissionResolvesKeepsLoading ==
    /\ pending > 0
    /\ pending' = pending - 1
    /\ modal' = showModal(SuccessTitle(variant), SuccessMessage(variant))
    /\ lastOp' = [op |-> "resolved", field |-> "", raw |-> <<>>]
    /\ UNCHANGED <<variant, mounted, formData, formErrors, loading, failedUnedited>>

\* The timer fires and the promise resolves: the success modal, then
\* setLoading(false).
SubmissionResolves ==
    /\ pending > 0
    /\ pending' = pending - 1
    /\ modal' = showModal(SuccessTitle(variant), SuccessMessage(variant))
    /\ loading' = FALSE
    /\ lastOp' = [op |-> "resolved", field |-> "", raw |-> <<>>]
    /\ UNCHANGED <<variant, mounted, formData, formErrors, failedUnedited>>

\* A slip: a failed submission is started again.
SubmissionRejectsRetries ==
    /\ variant \in Rejecting
    /\ pending > 0
    /\ modal' = showModal(ServerErrorTitle(variant), ServerErrorMessage(variant))
    /\ loading' = TRUE
    /\ lastOp' = [op |-> "rejected", field |-> "", raw |-> <<>>]
    /\ UNCHANGED <<variant, mounted, formData, formErrors, pending, failedUnedited>>

\* A slip: the form is reset when the submission fails.
SubmissionRejectsClearsForm ==
    /\ variant \in Rejecting
    /\ pending > 0
    /\ pending' = pending - 1
    /\ modal' = showModal(ServerErrorTitle(variant), ServerErrorMessage(variant))
    /\ loading' = FALSE
    /\ formData' = EmptyForm
    /\ formErrors' = <<>>
    /\ failedUnedited' = {}
    /\ lastOp' = [op |-> "rejected", field |-> "", raw |-> <<>>]
    /\ UNCHANGED <<variant, mounted>>

\* The timer fires and the promise of useApi.submitForm rejects (Math.random()
\* <= 0.1): the server error modal, then setLoading(false).  The promise of
\* index.tsx never rejects.
SubmissionRejects ==
    /\ variant \in Rejecting
    /\ pending > 0
    /\ pending' = pending - 1
    /\ modal' = showModal(ServerErrorTitle(variant), ServerErrorMessage(variant))
    /\ loading' = FALSE
    /\ lastOp' = [op |-> "rejected", field |-> "", raw |-> <<>>]
    /\ UNCHANGED <<variant, mounted, formData, formErrors, failedUnedited>>

\* A slip: hideModal resets the form whatever the notification was.
HideModalAlwaysResets ==
    /\ mounted
    /\ modal.isVisible
    /\ modal' = [modal EXCEPT !.isVisible = FALSE]
    /\ formData' = EmptyForm
    /\ formErrors' = <<>>
    /\ failedUnedited' = {}
    /\ lastOp' = [op |-> "hideModal", field |-> "", raw |-> <<>>]
    /\ UNCHANGED <<variant, mounted, loading, pending>>

\* hideModal, the onClose of the modal (its button, shown while it is visible).
HideModal ==
    /\ mounted
    /\ modal.isVisible
    /\ modal' = [modal EXCEPT !.isVisible = FALSE]
    /\ IF modal.title = SuccessTitle(variant)
       THEN /\ formData' = EmptyForm
            /\ formErrors' = <<>>
            /\ failedUnedited' = {}
       ELSE UNCHANGED <<formData, formErrors, failedUnedited>>
    /\ lastOp' = [op |-> "hideModal", field |-> "", raw |-> <<>>]
    /\ UNCHANGED <<variant, mounted, loading, pending>>

Next ==
    \/ /\ \E field \in FieldSet : \E value \in RawInputs(field) : UpdateField(field, value)
       /\ UNCHANGED <<arg, ret, done, calls, successSeen>>
    \/ PressSubmit /\ UNCHANGED <<arg, ret, done, calls, successSeen>>
    \/ SubmitEditing /\ UNCHANGED <<arg, ret, done, calls, successSeen>>
    \/ SubmissionResolves /\ UNCHANGED <<arg, ret, done, calls, successSeen>>
    \/ SubmissionRejects /\ UNCHANGED <<arg, ret, done, calls, successSeen>>
    \/ HideModal /\ UNCHANGED <<arg, ret, done, calls, successSeen>>

Spec == Init /\ [][Next]_vars

\* The timer of a pending submission fires, whatever the outcome.
TimerFires ==
    /\ SubmissionResolves \/ SubmissionRejects
    /\ UNCHANGED <<arg, ret, done, calls, successSeen>>

\* setTimeout(resolve, 2500): a timer that was started fires.
SpecLive == Spec /\ WF_vars(TimerFires)

-----------------------------------------------------------------------------
(* The screen is taken off while it is in use: React unmounts the component. *)
(* No handler of index.tsx registers a cleanup, keeps a mounted flag or      *)
(* clears the timer, so the continuation of handleSubmit still runs.         *)

Unmount ==
    /\ mounted
    /\ mounted' = FALSE
    /\ lastOp' = [op |-> "unmount", field |-> "", raw |-> <<>>]
    /\ UNCHANGED <<variant, formData, formErrors, loading, modal, pending,
                   failedUnedited>>

InitUnmount ==
    /\ arg = <<>>
    /\ ret = <<>>
    /\ done = FALSE
    /\ CtlIdle("index")

NextUnmount ==
    \/ /\ \E field \in FieldSet : \E value \in RawInputs(field) : UpdateField(field, value)
       /\ UNCHANGED <<arg, ret, done, calls, successSeen>>
    \/ PressSubmit /\ UNCHANGED <<arg, ret, done, calls, successSeen>>
    \/ SubmitEditing /\ UNCHANGED <<arg, ret, done, calls, successSeen>>
    \/ SubmissionResolves /\ UNCHANGED <<arg, ret, done, calls, successSeen>>
    \/ HideModal /\ UNCHANGED <<arg, ret, done, calls, successSeen>>
    \/ Unmount /\ UNCHANGED <<arg, ret, done, calls, successSeen>>

SpecUnmount == InitUnmount /\ [][NextUnmount]_vars

-----------------------------------------------------------------------------
(* The useForm hook (variant "useForm").  Its owner passes the callbacks     *)
(* onSuccess(message) and onError(title, message); modal records the last    *)
(* notification the hook asked for.                                          *)

\* onSuccess(message): the hook passes the message alone.
onSuccess(message) == showModal("", message)

\* onError(title, message)
onError(title, message) == showModal(title, message)

InitUseForm ==
    /\ arg = <<>>
    /\ ret = <<>>
    /\ done = FALSE
    /\ CtlIdle("useForm")

\* useForm.updateField(field, value): [field]: value, then the entry of the
\* field is deleted from the error record.
UseFormUpdateField(field, value) ==
    /\ mounted
    /\ formData' = [formData EXCEPT ![field] = value]
    /\ formErrors' = DeleteKey(formErrors, field)
    /\ lastOp' = [op |-> "updateField", field |-> field, raw |-> value]
    /\ failedUnedited' = failedUnedited \ {field}
    /\ UNCHANGED <<variant, mounted, loading, modal, pending>>

\* useForm.resetForm()
UseFormResetForm ==
    /\ mounted
    /\ formData' = EmptyForm
    /\ formErrors' = <<>>
    /\ lastOp' = [op |-> "resetForm", field |-> "", raw |-> <<>>]
    /\ failedUnedited' = {}
    /\ UNCHANGED <<variant, mounted, loading, modal, pending>>

\* useForm.handleSubmit up to the await.
UseFormHandleSubmit ==
    LET validationErrors == validateForm(formData) IN
    /\ mounted
    /\ lastOp' = [op |-> "handleSubmit", field |-> "", raw |-> <<>>]
    /\ failedUnedited' = {f \in FieldSet : ~FieldRule(f, formData[f])}
    /\ IF ~validationErrors.isNull
       THEN /\ formErrors' = validationErrors.errors
            /\ modal' = onError(ValidationTitle(variant),
                                 Values(validationErrors.errors)[1])
            /\ UNCHANGED <<variant, mounted, formData, loading, pending>>
       ELSE /\ pending < MaxPending
            /\ loading' = TRUE
            /\ pending' = pending + 1
            /\ UNCHANGED <<variant, mounted, formData, formErrors, modal>>

\* The calls of handleSubmit after the await, in the order of the source:
\* the try block, then the finally block.
UseFormResolveEffects == <<"onSuccess", "resetForm", "setIsLoading">>

\* A slip: the form is kept until the notification is dismissed.
UseFormResolvesKeepsForm ==
    /\ pending > 0
    /\ pending' = pending - 1
    /\ modal' = onSuccess(SuccessMessage(variant))
    /\ loading' = FALSE
    /\ lastOp' = [op |-> "resolved", field |-> "", raw |-> <<>>]
    /\ ret' = <<"onSuccess", "setIsLoading">>
    /\ UNCHANGED <<variant, mounted, formData, formErrors, failedUnedited>>

\* useForm.handleSubmit after the await: onSuccess, resetForm(), then
\* setIsLoading(false).  The promise never rejects.
UseFormResolves ==
    /\ pending > 0
    /\ pending' = pending - 1
    /\ modal' = onSuccess(SuccessMessage(variant))
    /\ formData' = EmptyForm
    /\ formErrors' = <<>>
    /\ failedUnedited' = {}
    /\ loading' = FALSE
    /\ lastOp' = [op |-> "resolved", field |-> "", raw |-> <<>>]
    /\ ret' = UseFormResolveEffects
    /\ UNCHANGED <<variant, mounted>>

NextUseForm ==
    \/ /\ \E field \in FieldSet : \E value \in RawInputs(field) :
              UseFormUpdateField(field, value)
       /\ UNCHANGED <<arg, ret, done, calls, successSeen>>
    \/ UseFormResetForm /\ UNCHANGED <<arg, ret, done, calls, successSeen>>
    \/ UseFormHandleSubmit /\ UNCHANGED <<arg, ret, done, calls, successSeen>>
    \/ UseFormResolves /\ UNCHANGED <<arg, done, calls, successSeen>>
    \/ Unmount /\ UNCHANGED <<arg, ret, done, calls, successSeen>>

SpecUseForm == InitUseForm /\ [][NextUseForm]_vars

-----------------------------------------------------------------------------
(* The RegistrationForm with the calls of useApi.submitForm spelled out:     *)
(* calls holds the data each call in flight was given.  The timers all last  *)
(* 2500 ms, so they fire in the order of the calls; the continuation of the  *)
(* handler runs in the same task as the timer callback that settles the      *)
(* promise.                                                                  *)

InitCalls ==
    /\ arg = <<>>
    /\ ret = <<>>
    /\ done = FALSE
    /\ \E v \in Rejecting : CtlIdle(v)

\* The texts entered here: one that passes and one that fails, per field, and
\* a second name that passes.
CallsInputs(field) ==
    CASE field = "name" -> { <<>>, <<"J", "o">>, <<"J">> }
      [] field = "phone" ->
            { <<>>, <<"1", "1", "9", "8", "7", "6", "5", "4", "3", "2", "1">> }
      [] field = "email" -> { <<>>, <<"a", "@", "b", ".", "c">> }
      [] field = "password" -> { <<>>, <<"1", "2", "3", "4", "5", "6">> }

CallsUpdateField(field, value) ==
    /\ UpdateField(field, value)
    /\ UNCHANGED <<calls, successSeen>>

\* Another notification is raised over the one of a success outcome.
Overwritten == IF successSeen = "no" THEN "no" ELSE "overwritten"

\* A slip: submitForm is called whatever the validation returned.
CallsAfterValidationAlways ==
    /\ calls' = Append(calls, formData)
    /\ successSeen' =
          IF validateFormHook(formData).isNull THEN successSeen ELSE Overwritten

\* await submitForm(formData) when the validation returned null; otherwise the
\* validation notification is raised.
CallsAfterValidation ==
    IF validateFormHook(formData).isNull
    THEN /\ calls' = Append(calls, formData)
         /\ UNCHANGED successSeen
    ELSE /\ successSeen' = Overwritten
         /\ UNCHANGED calls

CallsPressSubmit == PressSubmit /\ CallsAfterValidation

CallsSubmitEditing == SubmitEditing /\ CallsAfterValidation

\* A slip: hideModal looks at what was shown since the last dismissal, not at
\* the title the record holds now.
CallsHideModalAfterAnySuccess ==
    /\ mounted
    /\ modal.isVisible
    /\ modal' = [modal EXCEPT !.isVisible = FALSE]
    /\ IF successSeen # "no"
       THEN /\ formData' = EmptyForm
            /\ formErrors' = <<>>
            /\ failedUnedited' = {}
       ELSE UNCHANGED <<formData, formErrors, failedUnedited>>
    /\ lastOp' = [op |-> "hideModal", field |-> "", raw |-> <<>>]
    /\ successSeen' = "no"
    /\ UNCHANGED <<variant, mounted, loading, pending, calls>>

\* The timer of the oldest call fires with Math.random() > 0.1: resolve().
CallsResolves ==
    /\ Len(calls) > 0
    /\ SubmissionResolves
    /\ calls' = Tail(calls)
    /\ successSeen' = "last"

\* The timer of the oldest call fires with Math.random() <= 0.1: reject(...).
CallsRejects ==
    /\ Len(calls) > 0
    /\ SubmissionRejects
    /\ calls' = Tail(calls)
    /\ successSeen' = Overwritten

CallsHideModal ==
    /\ HideModal
    /\ successSeen' = "no"
    /\ UNCHANGED calls

NextCalls ==
    \/ /\ \E field \in FieldSet : \E value \in CallsInputs(field) :
              CallsUpdateField(field, value)
       /\ UNCHANGED <<arg, ret, done>>
    \/ CallsPressSubmit /\ UNCHANGED <<arg, ret, done>>
    \/ CallsSubmitEditing /\ UNCHANGED <<arg, ret, done>>
    \/ CallsResolves /\ UNCHANGED <<arg, ret, done>>
    \/ CallsRejects /\ UNCHANGED <<arg, ret, done>>
    \/ CallsHideModal /\ UNCHANGED <<arg, ret, done>>

SpecCalls == InitCalls /\ [][NextCalls]_vars

-----------------------------------------------------------------------------
(* Harness for formatPhone: a text is typed character by character into   *)
(* the phone input, and formatPhone is called on it.                       *)

PhoneChars == {"1", "2", "a", "(", "-"}

NonDigitCount(t) == Len(t) - Len(StripNonDigits(t))

\* The texts tried: every text over PhoneChars up to MaxMixedLen characters, and
\* every text of up to MaxDigitLen digits with at most one "-" anywhere in it.
InPhoneTexts(t) ==
    \/ Len(t) <= MaxMixedLen
    \/ /\ Len(StripNonDigits(t)) <= MaxDigitLen
       /\ NonDigitCount(t) <= 1
       /\ \A i \in 1..Len(t) : t[i] \in {"1", "2", "-"}

InitPhone ==
    /\ arg = <<>>
    /\ ret = <<>>
    /\ done = FALSE
    /\ CtlIdle("index")

TypePhoneChar ==
    /\ ~done
    /\ \E c \in PhoneChars :
         /\ InPhoneTexts(Append(arg, c))
         /\ arg' = Append(arg, c)
    /\ UNCHANGED <<ret, done, ctlVars>>

CallFormatPhone ==
    /\ ~done
    /\ ret' = formatPhone(arg)
    /\ done' = TRUE
    /\ UNCHANGED <<arg, ctlVars>>

NextPhone == TypePhoneChar \/ CallFormatPhone

SpecPhone == InitPhone /\ [][NextPhone]_vars

-----------------------------------------------------------------------------
(* Claims about formatPhone, checked under SpecPhone *)

\* The digit characters of a text, in order (written independently of SelectSeq).
RECURSIVE DigitsOf(_)
DigitsOf(t) ==
    IF t = <<>> THEN <<>>
    ELSE IF Head(t) \in Digits THEN <<Head(t)>> \o DigitsOf(Tail(t))
    ELSE DigitsOf(Tail(t))

\* C1: formatPhone is idempotent: formatting an already formatted text changes
\* nothing, whatever the digit count and the non-digit characters of the input.
C1_FormatPhoneIdempotent ==
    done => formatPhone(ret) = ret

\* C1 witness: a text with a non-digit and more than 11 digits was formatted, the
\* result differs from the text and is itself of the longest shape.
C1_Witness ==
    /\ done
    /\ Len(DigitsOf(arg)) > 11
    /\ NonDigitCount(arg) > 0
    /\ ret # arg
    /\ Len(ret) = 15

\* The result the claim C2 describes, position by position, from the digits d.
ExpectedPhone(d) ==
    LET n == Len(d)
        m == Min(n, 11)
    IN  IF n <= 2 THEN d
        ELSE IF n <= 6
        THEN [i \in 1..(n + 3) |->
                CASE i = 1 -> "("
                  [] i \in 2..3 -> d[i - 1]
                  [] i = 4 -> ")"
                  [] i = 5 -> " "
                  [] OTHER -> d[i - 3]]
        ELSE [i \in 1..(m + 4) |->
                CASE i = 1 -> "("
                  [] i \in 2..3 -> d[i - 1]
                  [] i = 4 -> ")"
                  [] i = 5 -> " "
                  [] i \in 6..10 -> d[i - 3]
                  [] i = 11 -> "-"
                  [] OTHER -> d[i - 4]]

\* C2: the result depends only on the digits d of the input: d itself for at most
\* 2 digits, "(" d[0..1] ") " d[2..] for 3 to 6 digits, and
\* "(" d[0..1] ") " d[2..6] "-" d[7..10] for 7 or more, digits past the 11th dropped.
C2_FormatPhoneShape ==
    done => ret = ExpectedPhone(DigitsOf(arg))

\* C2 witness: a 12-digit text with a non-digit in it was formatted and its 12th
\* digit, the only "2", is gone from the result.
C2_Witness ==
    /\ done
    /\ Len(DigitsOf(arg)) = 12
    /\ NonDigitCount(arg) = 1
    /\ DigitsOf(arg)[12] = "2"
    /\ \A i \in 1..Len(ret) : ret[i] # "2"

\* (DD) DDDDD- followed by exactly k digits.
MatchesMask(t, k) ==
    /\ Len(t) = 11 + k
    /\ t[1] = "("
    /\ t[2] \in Digits /\ t[3] \in Digits
    /\ t[4] = ")"
    /\ t[5] = " "
    /\ \A i \in 6..10 : t[i] \in Digits
    /\ t[11] = "-"
    /\ \A i \in 12..(11 + k) : t[i] \in Digits

\* C3 as stated: for 7 to 11 digits the result matches (DD) DDDDD-DDDD, with
\* exactly four digits after the hyphen.
C3_OriginalFullMask ==
    (done /\ Len(DigitsOf(arg)) \in 7..11) => MatchesMask(ret, 4)

\* C3 amended: for n digits, 7 <= n <= 11, the result is (DD) DDDDD- followed by
\* the n - 7 remaining digits (none to four); it is the full (DD) DDDDD-DDDD
\* only for n = 11.
C3_FormatPhonePartialMask ==
    (done /\ Len(DigitsOf(arg)) \in 7..11) =>
        /\ MatchesMask(ret, Len(DigitsOf(arg)) - 7)
        /\ MatchesMask(ret, 4) <=> Len(DigitsOf(arg)) = 11

\* C3 witness: a text of 9 digits and one non-digit was formatted, giving two
\* digits after the hyphen.
C3_Witness ==
    /\ done
    /\ Len(DigitsOf(arg)) = 9
    /\ NonDigitCount(arg) = 1
    /\ MatchesMask(ret, 2)

-----------------------------------------------------------------------------
(* Harness for validateEmail: a text is typed character by character into  *)
(* the email input, and validateEmail is called on it.                     *)

EmailChars == {"a", "@", ".", " "}

EmailExamples ==
    { <<"a", "@", "b", ".", "c">>,
      <<"a", "@", "b">>,
      <<"a", ".", "b", ".", "c", "o", "m">>,
      <<"j", "o", "@", "x", ".", "c", "o", "m">>,
      <<"a", "@", "b", ".", "c", "\n">>,
      <<"a", "\t", "@", "b", ".", "c">> }

IsPrefix(t, u) == Len(t) <= Len(u) /\ SubSeq(u, 1, Len(t)) = t

\* The texts tried: every text over EmailChars up to MaxEmailLen characters, and
\* the examples with their prefixes.
InEmailTexts(t) ==
    \/ Len(t) <= MaxEmailLen /\ \A i \in 1..Len(t) : t[i] \in EmailChars
    \/ \E u \in EmailExamples : IsPrefix(t, u)

InitEmail ==
    /\ arg = <<>>
    /\ ret = FALSE
    /\ done = FALSE
    /\ CtlIdle("index")

TypeEmailChar ==
    /\ ~done
    /\ \E c \in EmailChars \cup {"b", "c", "o", "m", "j", "x", "\n", "\t"} :
         /\ InEmailTexts(Append(arg, c))
         /\ arg' = Append(arg, c)
    /\ UNCHANGED <<ret, done, ctlVars>>

CallValidateEmail ==
    /\ ~done
    /\ ret' = validateEmail(arg)
    /\ done' = TRUE
    /\ UNCHANGED <<arg, ctlVars>>

NextEmail == TypeEmailChar \/ CallValidateEmail

SpecEmail == InitEmail /\ [][NextEmail]_vars

-----------------------------------------------------------------------------
(* Claims about validateEmail, checked under SpecEmail *)

\* C4: validateEmail accepts exactly the texts of the shape local@domain.tld;
\* "a@b.c" is accepted, "a@b" and "a.b.com" are rejected, and so is every text
\* with whitespace or with two "@".
C4_ValidateEmailShape ==
    done =>
        /\ ret <=> HasEmailShape(arg)
        /\ arg = <<"a", "@", "b", ".", "c">> => ret
        /\ arg = <<"a", "@", "b">> => ~ret
        /\ arg = <<"a", ".", "b", ".", "c", "o", "m">> => ~ret
        /\ (HasSpace(arg) \/ Count(arg, "@") >= 2) => ~ret

\* C4 witness: a text with two dots after the "@" was accepted (the first dot
\* or the second is the literal one).
C4_Witness ==
    /\ done
    /\ ret
    /\ Len(arg) = 6
    /\ Count(arg, ".") = 2
    /\ arg[1] = "a" /\ arg[2] = "@"

-----------------------------------------------------------------------------
(* Harness for validateForm: the form data is any record of FormInputs,    *)
(* validated by either implementation.                                     *)

FormEmails ==
    { <<>>,
      <<" ">>,
      <<"a", "@", "b", ".", "c">>,
      <<"a", "@", "b">>,
      <<" ", "a", "@", "b", ".", "c">>,
      <<"b", "a", "d", "-", "e", "m", "a", "i", "l">> }

FormInputs ==
    [ name : AllSeqs({"J", " "}, MaxShortLen),
      phone : AllSeqs({"1", " "}, MaxShortLen),
      email : FormEmails,
      password : AllSeqs({"p", " "}, MaxPasswordLen) ]

NoResult == [isNull |-> TRUE, errors |-> <<>>]

InitForm ==
    /\ arg \in FormInputs
    /\ ret = NoResult
    /\ done = FALSE
    /\ CtlIdle("index")

CallValidateForm ==
    /\ ~done
    /\ ret' = validateForm(arg)
    /\ done' = TRUE
    /\ UNCHANGED <<arg, ctlVars>>

CallValidateFormHook ==
    /\ ~done
    /\ ret' = validateFormHook(arg)
    /\ done' = TRUE
    /\ UNCHANGED <<arg, ctlVars>>

NextForm == CallValidateForm \/ CallValidateFormHook

SpecForm == InitForm /\ [][NextForm]_vars

-----------------------------------------------------------------------------
(* Claims about validateForm, checked under SpecForm *)

\* C5 as stated: validateForm returns null exactly when name and phone are
\* non-empty after trimming, email is non-empty and a valid email, and password
\* is non-empty with length >= 6.
C5_OriginalNullIffStatedRules ==
    done => (ret.isNull <=> \A f \in FieldSet : StatedRule(f, arg[f]))

\* C5 amended: validateForm returns null exactly when name and phone are
\* non-empty after trimming, email is non-empty and a valid email, and password
\* is non-empty after trimming with (untrimmed) length >= 6; otherwise it
\* returns a non-null error record.
C5_NullIffFieldRules ==
    done =>
        /\ ret.isNull <=> \A f \in FieldSet : FieldRule(f, arg[f])
        /\ ~ret.isNull => Len(ret.errors) > 0

\* C5 witness: a form whose password is six characters long with a leading
\* space was validated and accepted.
C5_Witness ==
    /\ done
    /\ ret.isNull
    /\ Len(arg.password) = 6
    /\ arg.password[1] = " "

\* C6: a returned error record has a key for a field exactly when that field
\* fails its own rule, whatever the other fields hold: four keys for the empty
\* form, and only the email key when only the email is invalid.
C6_KeysAreFailingFields ==
    (done /\ ~ret.isNull) =>
        /\ Keys(ret.errors) = {f \in FieldSet : ~FieldRule(f, arg[f])}
        /\ Len(ret.errors) = Cardinality(Keys(ret.errors))
        /\ arg = EmptyForm => Keys(ret.errors) = FieldSet
        /\ (\A f \in FieldSet \ {"email"} : FieldRule(f, arg[f])) =>
               Keys(ret.errors) = {"email"}

\* C6 witness: the form with a valid name, phone and password and the email
\* "bad-email" was validated and the record holds the email key alone.
C6_Witness ==
    /\ done
    /\ ~ret.isNull
    /\ arg.email = <<"b", "a", "d", "-", "e", "m", "a", "i", "l">>
    /\ arg.name = <<"J">>
    /\ Keys(ret.errors) = {"email"}

-----------------------------------------------------------------------------
(* Claims about the screen, checked under Spec *)

PhoneExampleRaw == <<"1", "1", "9", "8", "7", "6", "5", "4", "3", "2", "1">>

PhoneExampleStored ==
    <<"(", "1", "1", ")", " ", "9", "8", "7", "6", "5", "-", "4", "3", "2", "1">>

\* C7: updateField(field, raw) stores formatPhone(raw) for the phone and raw
\* itself for name, email and password; updateField("phone", "11987654321")
\* stores "(11) 98765-4321".
C7_UpdateFieldStores ==
    lastOp.op = "updateField" =>
        /\ lastOp.field = "phone" => formData.phone = formatPhone(lastOp.raw)
        /\ lastOp.field # "phone" => formData[lastOp.field] = lastOp.raw
        /\ (lastOp.field = "phone" /\ lastOp.raw = PhoneExampleRaw) =>
               formData.phone = PhoneExampleStored

\* C7 witness: updateField("phone", "11987654321") has just run in the
\* RegistrationForm and the phone reads "(11) 98765-4321".
C7_Witness ==
    /\ variant = "registration"
    /\ lastOp = [op |-> "updateField", field |-> "phone", raw |-> PhoneExampleRaw]
    /\ formData.phone = PhoneExampleStored

\* The entry of a field in an error record: its message, or "" when absent.
Entry(errors, f) == IF f \in Keys(errors) THEN MsgOf(errors, f) ELSE ""

\* C8: every updateField(field, raw) removes the error entry of that field,
\* whatever the new value, and leaves the values and the error entries of the
\* other three fields, the loading flag and the notification unchanged.
C8_UpdateFieldFrame ==
    [][lastOp'.op = "updateField" =>
          /\ lastOp'.field \notin Keys(formErrors')
          /\ \A f \in FieldSet \ {lastOp'.field} :
                /\ formData'[f] = formData[f]
                /\ (f \in Keys(formErrors')) = (f \in Keys(formErrors))
                /\ Entry(formErrors', f) = Entry(formErrors, f)
          /\ loading' = loading
          /\ modal' = modal
          /\ pending' = pending]_vars

\* C8 witness: the name failed at a validation pass (its message is still in
\* the visible modal), then updateField("name", "") ran: the name is still
\* empty, its entry is gone and the email entry is still there.
C8_Witness ==
    /\ lastOp = [op |-> "updateField", field |-> "name", raw |-> <<>>]
    /\ modal.isVisible
    /\ modal.message = MsgNameRequired
    /\ Keys(formErrors) = {"email"}
    /\ formData.name = <<>>

\* C9: in every reachable state the error record has a key only for a field
\* that failed its rule at the last validation pass and was not edited since;
\* hence a field whose current value satisfies its rule has no error key.
C9_ErrorKeysAreStaleFailures ==
    /\ Keys(formErrors) \subseteq failedUnedited
    /\ \A f \in FieldSet : FieldRule(f, formData[f]) => f \notin Keys(formErrors)

\* C9 witness: after a failed validation pass and an edit, the record holds the
\* password key alone while the name, edited back to empty, is invalid and has
\* no key, and the email is valid.
C9_Witness ==
    /\ Keys(formErrors) = {"password"}
    /\ formData.name = <<>>
    /\ FieldRule("email", formData.email)
    /\ modal.isVisible
    /\ modal.message = MsgNameRequired

\* The first field, in the order name, phone, email, password, that fails.
FirstFailing(data) ==
    LET i == CHOOSE i \in 1..4 :
                 /\ ~FieldRule(Fields[i], data[Fields[i]])
                 /\ \A j \in 1..(i - 1) : FieldRule(Fields[j], data[Fields[j]])
    IN  Fields[i]

\* C10 as stated: every submit on a form with an invalid field stores the
\* validation errors, shows the validation error notification with the message
\* of the first failing field, starts no submission, leaves isLoading false and
\* leaves the four field values unchanged.
C10_OriginalInvalidSubmit ==
    [][(/\ lastOp'.op \in {"pressSubmit", "submitEditing"}
        /\ \E f \in FieldSet : ~FieldRule(f, formData[f])) =>
          /\ Keys(formErrors') = {f \in FieldSet : ~FieldRule(f, formData[f])}
          /\ modal'.isVisible
          /\ modal'.title = ValidationTitle(variant)
          /\ modal'.message = MsgOf(formErrors', FirstFailing(formData))
          /\ pending' = pending
          /\ loading' = FALSE
          /\ formData' = formData]_vars

-----------------------------------------------------------------------------
(* Submission, outcome and notification *)

SubmitOps == {"pressSubmit", "submitEditing"}

\* The titles of the notifications that end a submission on the screen v.
OutcomeTitles(v) ==
    IF v \in Rejecting THEN {SuccessTitle(v), ServerErrorTitle(v)}
    ELSE {SuccessTitle(v)}

\* A submission has just ended: the loading flag is down and its outcome is
\* in the visible notification.
OutcomeShown ==
    /\ lastOp.op \in {"resolved", "rejected"}
    /\ ~loading
    /\ modal.isVisible
    /\ modal.title \in OutcomeTitles(variant)

\* C11: a submit on an all-valid form sets isLoading to true, and, the timers
\* firing, whenever a submission is pending the oldest one ends, with
\* isLoading false and the outcome notification visible: Success where the
\* promise cannot reject, Success or Server Error where it can.
C11_SubmitEndsWithOutcome ==
    /\ [](lastOp.op \in SubmitOps /\ failedUnedited = {} => loading)
    /\ (lastOp.op \in SubmitOps /\ failedUnedited = {}) ~> OutcomeShown
    /\ (pending > 0) ~> OutcomeShown

\* C11 witness: in index.tsx a submission has ended: the success notification
\* is visible, nothing is pending and isLoading is false.
C11_Witness ==
    /\ variant = "index"
    /\ lastOp.op = "resolved"
    /\ pending = 0
    /\ ~loading
    /\ modal = showModal("Sucesso!", "Sua conta foi criada com sucesso. Bem-vindo!")

\* C12: when a submission ends in failure, the server error notification
\* with the fixed retry message becomes visible, the loading flag is cleared,
\* and the four field values and the error record are what they were before.
C12_FailureKeepsForm ==
    [][lastOp'.op = "rejected" =>
          /\ modal'.isVisible
          /\ \/ /\ modal'.title = "Server Error"
                /\ modal'.message = "Unable to create your account. Please try again."
             \/ /\ modal'.title = "Erro no Servidor"
                /\ modal'.message = "Não foi possível criar sua conta. Tente novamente."
          /\ loading' = FALSE
          /\ formData' = formData
          /\ formErrors' = formErrors]_vars

\* C12 witness: a submission of the Portuguese RegistrationForm has failed: the
\* server error notification is visible, isLoading is false and the four
\* fields still hold what was submitted.
C12_Witness ==
    /\ variant = "registrationPT"
    /\ lastOp.op = "rejected"
    /\ modal = showModal("Erro no Servidor",
                         "Não foi possível criar sua conta. Tente novamente.")
    /\ ~loading
    /\ formData.name = <<"J", "o">>
    /\ formData.phone = PhoneExampleStored
    /\ formData.email = <<"a", "@", "b", ".", "c">>
    /\ formData.password = <<"1", "2", "3", "4", "5", "6">>

SuccessTitles == {"Sucesso!", "Success!"}

ErrorTitles ==
    {"Erro de Validação", "Validation Error", "Erro no Servidor", "Server Error"}

\* C13: dismissing the notification hides it; when it is the success
\* notification the four fields become empty strings and the error record
\* empty, and when it is a validation or server error notification the fields
\* and the error record are unchanged.
C13_DismissNotification ==
    [][lastOp'.op = "hideModal" =>
          /\ ~modal'.isVisible
          /\ modal.title \in SuccessTitles =>
                 formData' = EmptyForm /\ formErrors' = <<>>
          /\ modal.title \in ErrorTitles =>
                 formData' = formData /\ formErrors' = formErrors]_vars

\* C13 witness: the success notification of the English RegistrationForm was
\* dismissed: it is hidden, and the fields and the error record are empty.
C13_Witness ==
    /\ variant = "registration"
    /\ lastOp.op = "hideModal"
    /\ modal = [isVisible |-> FALSE, title |-> "Success!",
                message |-> "Your account has been created successfully. Welcome!"]
    /\ formData = EmptyForm
    /\ formErrors = <<>>
    /\ pending = 0

-----------------------------------------------------------------------------
(* The kind under which CustomModal presents a notification *)

UpperCase ==
    <<"A", "B", "C", "D", "E", "F", "G", "H", "I", "J", "K", "L", "M",
      "N", "O", "P", "Q", "R", "S", "T", "U", "V", "W", "X", "Y", "Z">>

LowerCase ==
    <<"a", "b", "c", "d", "e", "f", "g", "h", "i", "j", "k", "l", "m",
      "n", "o", "p", "q", "r", "s", "t", "u", "v", "w", "x", "y", "z">>

\* String.prototype.toLowerCase, on the letters A to Z
ToLowerCase(s) ==
    [i \in 1..Len(s) |->
        IF \E k \in 1..Len(UpperCase) : UpperCase[k] = s[i]
        THEN LowerCase[CHOOSE k \in 1..Len(UpperCase) : UpperCase[k] = s[i]]
        ELSE s[i]]

\* String.prototype.includes
Includes(s, part) ==
    \E i \in 0..(Len(s) - Len(part)) : SubSeq(s, i + 1, i + Len(part)) = part

\* The characters of a title of the modal record.
TitleText(title) ==
    CASE title = "" -> <<>>
      [] title = "Sucesso!" ->
            <<"S", "u", "c", "e", "s", "s", "o", "!">>
      [] title = "Success!" ->
            <<"S", "u", "c", "c", "e", "s", "s", "!">>
      [] title = "Erro de Validação" ->
            <<"E", "r", "r", "o", " ", "d", "e", " ", "V", "a", "l", "i", "d", "a", "ç", "ã", "o">>
      [] title = "Validation Error" ->
            <<"V", "a", "l", "i", "d", "a", "t", "i", "o", "n", " ", "E", "r", "r", "o", "r">>
      [] title = "Erro no Servidor" ->
            <<"E", "r", "r", "o", " ", "n", "o", " ", "S", "e", "r", "v", "i", "d", "o", "r">>
      [] title = "Server Error" ->
            <<"S", "e", "r", "v", "e", "r", " ", "E", "r", "r", "o", "r">>

\* const isSuccessModal = title.includes('Sucesso!')
isSuccessModal(title) == Includes(title, <<"S", "u", "c", "e", "s", "s", "o", "!">>)

\* const isErrorModal = title.includes('Erro')
isErrorModal(title) == Includes(title, <<"E", "r", "r", "o">>)

\* The CustomModal of molecules/ and of index.tsx:
\* isSuccessModal ? (check mark) : isErrorModal ? (cross) : (title and message)
PresentedKind(title) ==
    IF isSuccessModal(title) THEN "Success"
    ELSE IF isErrorModal(title) THEN "Error"
    ELSE "Info"

\* The CustomModal of Modal/: determineModalType(modalTitle)
determineModalType(modalTitle) ==
    LET titleLowerCase == ToLowerCase(modalTitle) IN
    IF \/ Includes(titleLowerCase, <<"s", "u", "c", "c", "e", "s", "s">>)
       \/ Includes(titleLowerCase, <<"s", "u", "c", "e", "s", "s", "o">>)
    THEN "Success"
    ELSE IF \/ Includes(titleLowerCase, <<"e", "r", "r", "o", "r">>)
            \/ Includes(titleLowerCase, <<"e", "r", "r", "o">>)
    THEN "Error"
    ELSE "Info"

-----------------------------------------------------------------------------
(* Claims about concurrency, error paths and the notification *)

\* C14 as stated: at most one submission is in flight; a submit invoked, by
\* the button or by the submit-editing action of the password field, while a
\* submission is pending starts no second one.
C14_OriginalSingleFlight ==
    pending <= 1

\* C15 as stated: once the view is discarded, the timer completion that
\* arrives afterwards sets no notification, does not clear the loading flag
\* and resets no field.
C15_OriginalNoChangeAfterUnmount ==
    [][~mounted =>
          /\ modal' = modal
          /\ loading' = loading
          /\ formData' = formData
          /\ formErrors' = formErrors]_vars

\* The form failed validation at the submit being taken.
Invalid == \E f \in FieldSet : ~FieldRule(f, formData[f])

\* C16 as stated: the field values are reset only by the dismissal of the
\* success notification; a validation failure, a server failure and the
\* dismissal of an error notification change no field value, and each of them
\* leaves isLoading false.
C16_OriginalErrorPathsEndIdle ==
    [][/\ (/\ formData' # formData
           /\ lastOp'.op # "updateField") =>
              /\ lastOp'.op = "hideModal"
              /\ modal.title \in SuccessTitles
       /\ (\/ lastOp'.op \in SubmitOps /\ Invalid
           \/ lastOp'.op = "rejected"
           \/ lastOp'.op = "hideModal" /\ modal.title \in ErrorTitles) =>
              /\ formData' = formData
              /\ loading' = FALSE]_vars

\* C17: a submission starts only in a step that is a submit event whose
\* validation passed, one submission per event, and the step that ends a
\* submission in failure starts none: the submissions started never outnumber
\* the submit events that passed validation.
C17_NoAutomaticRetry ==
    [][/\ pending' > pending =>
              /\ lastOp'.op \in SubmitOps
              /\ ~Invalid
              /\ pending' = pending + 1
       /\ lastOp'.op \in {"resolved", "rejected"} => pending' = pending - 1
       /\ lastOp'.op \in SubmitOps /\ Invalid => pending' = pending]_vars

\* C17 witness: a submission of the RegistrationForm has failed and nothing
\* is pending: the form waits, filled in, for the user to submit again.
C17_Witness ==
    /\ variant = "registration"
    /\ lastOp.op = "rejected"
    /\ pending = 0
    /\ ~loading
    /\ ~Invalid

\* C18: the notification is one record of visibility, title and message.
\* Raising a notification (a failed validation, a success, a server failure)
\* sets the title and the message to those of the new one and makes it
\* visible, whatever the record held, visible or not; hiding it changes the
\* visibility alone; no other step touches it.
C18_SingleNotification ==
    [][/\ DOMAIN modal' = {"isVisible", "title", "message"}
       /\ (lastOp'.op \in SubmitOps /\ Invalid) =>
              modal' = [isVisible |-> TRUE,
                        title |-> ValidationTitle(variant),
                        message |-> MsgOf(formErrors', FirstFailing(formData))]
       /\ lastOp'.op = "resolved" =>
              modal' = [isVisible |-> TRUE,
                        title |-> SuccessTitle(variant),
                        message |-> SuccessMessage(variant)]
       /\ lastOp'.op = "rejected" =>
              modal' = [isVisible |-> TRUE,
                        title |-> ServerErrorTitle(variant),
                        message |-> ServerErrorMessage(variant)]
       /\ lastOp'.op = "hideModal" =>
              modal' = [isVisible |-> FALSE,
                        title |-> modal.title,
                        message |-> modal.message]
       /\ (\/ lastOp'.op = "updateField"
           \/ lastOp'.op \in SubmitOps /\ ~Invalid) => modal' = modal]_vars

\* C18 witness: in index.tsx one of two submissions has ended, raising the
\* success notification, and a later submit failed validation: the record
\* holds the validation notification, visible.
C18_Witness ==
    /\ variant = "index"
    /\ lastOp.op \in SubmitOps
    /\ pending = 1
    /\ ~loading
    /\ modal = showModal("Erro de Validação", MsgNameRequired)

\* C19 as stated: useForm.updateField("phone", raw) stores formatPhone(raw),
\* so the phone read back after an edit is the display form.
C19_OriginalUseFormFormatsPhone ==
    (lastOp.op = "updateField" /\ lastOp.field = "phone") =>
        formData.phone = formatPhone(lastOp.raw)

\* C20 as stated: whatever the notification record holds, each CustomModal
\* presents a success title ("Sucesso!", "Success!") as kind Success, a
\* validation or server error title as kind Error, and any other title as
\* kind Info.
C20_OriginalKindByTitle ==
    \A kind \in {PresentedKind(TitleText(modal.title)),
                  determineModalType(TitleText(modal.title))} :
        /\ modal.title \in SuccessTitles => kind = "Success"
        /\ modal.title \in ErrorTitles => kind = "Error"
        /\ modal.title \notin SuccessTitles \cup ErrorTitles => kind = "Info"

-----------------------------------------------------------------------------
(* Claims about the order of a submission, checked under SpecCalls *)

C22_OriginalLoadingIffPending ==
    loading <=> pending > 0

-----------------------------------------------------------------------------
(* The two validateForm side by side, checked under SpecForm *)

\* C24: for every combination of name, phone, email and password the else-if
\* validateForm and the independent-if validateForm return the same result:
\* both null, or the same keys with the same messages.
C24_SameValidateForm ==
    LET a == validateForm(arg)
        b == validateFormHook(arg)
    IN  done =>
          /\ ret \in {a, b}
          /\ a.isNull = b.isNull
          /\ Keys(a.errors) = Keys(b.errors)
          /\ \A k \in Keys(a.errors) : MsgOf(a.errors, k) = MsgOf(b.errors, k)

\* C24 witness: a form whose password is two spaces, which is both empty after
\* trimming and shorter than six, was validated, and the password message is
\* the required one.
C24_Witness ==
    /\ done
    /\ arg.password = <<" ", " ">>
    /\ arg.email = <<"a", "@", "b">>
    /\ MsgOf(ret.errors, "password") = MsgPasswordRequired
    /\ MsgOf(ret.errors, "email") = MsgEmailInvalid

\* The message of a field, from the value of that field alone.
ExpectedMessage(field, value) ==
    CASE field = "name" -> IF AllSpaces(value) THEN MsgNameRequired ELSE ""
      [] field = "phone" -> IF AllSpaces(value) THEN MsgPhoneRequired ELSE ""
      [] field = "email" ->
            IF AllSpaces(value) THEN MsgEmailRequired
            ELSE IF ~HasEmailShape(value) THEN MsgEmailInvalid
            ELSE ""
      [] field = "password" ->
            IF AllSpaces(value) THEN MsgPasswordRequired
            ELSE IF Len(value) < PasswordMinLength THEN MsgPasswordShort
            ELSE ""

\* C25: in the result of either validateForm the message of a field depends
\* on the value of that field alone, and a value that is empty after trimming
\* keeps the required message even when it fails the syntax or length test
\* too: the two rules of email, and of password, never both assign, so no
\* message is overwritten.
C25_NoMessageOverwritten ==
    done =>
        /\ \A f \in FieldSet : Entry(ret.errors, f) = ExpectedMessage(f, arg[f])
        /\ (AllSpaces(arg.email) /\ ~HasEmailShape(arg.email)) =>
               Entry(ret.errors, "email") = MsgEmailRequired
        /\ (AllSpaces(arg.password) /\ Len(arg.password) < PasswordMinLength) =>
               Entry(ret.errors, "password") = MsgPasswordRequired

\* C25 witness: the email is one space (empty after trimming, and not of the
\* shape of an address) and its message is the required one.
C25_Witness ==
    /\ done
    /\ arg.email = <<" ">>
    /\ arg.password = <<" ", " ", " ">>
    /\ Entry(ret.errors, "email") = MsgEmailRequired
    /\ Entry(ret.errors, "password") = MsgPasswordRequired

-----------------------------------------------------------------------------
(* The stored phone *)

\* Constraints of the phone field: eleven digits, and the fifteen characters
\* of "(dd) ddddd-dddd", which is also the maxLength of the input.
PHONE_MAX_DIGITS == 11
PHONE_MAX_LENGTH == 15

\* C26: in every state of the formatting controllers reached through
\* updateField, submit, completion and dismissNotification the stored phone is
\* a fixed point of formatPhone, has at most 11 digits and at most 15
\* characters.
C26_StoredPhoneIsFormatted ==
    /\ formatPhone(formData.phone) = formData.phone
    /\ Len(StripNonDigits(formData.phone)) <= PHONE_MAX_DIGITS
    /\ Len(formData.phone) <= PHONE_MAX_LENGTH

\* C26 witness: a text of sixteen characters and twelve digits was written to
\* the phone, and the stored phone is the mask of its first eleven digits.
C26_Witness ==
    /\ lastOp.op = "updateField"
    /\ lastOp.field = "phone"
    /\ Len(lastOp.raw) = 16
    /\ Len(StripNonDigits(lastOp.raw)) = 12
    /\ formData.phone =
         <<"(", "1", "1", ")", " ", "9", "8", "7", "6", "5", "-", "4", "3", "2", "1">>

-----------------------------------------------------------------------------
(* Harness for useApi.submitForm: one call with any form data; the clock    *)
(* advances, the timer callback runs once the delay has elapsed and settles *)
(* the promise, on which the async function is waiting.                     *)

\* setTimeout(..., 2500)
SUBMIT_DELAY == 2500

\* Math.random() > 0.1, in hundredths.
RANDOM_THRESHOLD == 10

\* Values of Math.random(), in hundredths: 0, exactly 0.1, just above, 0.99.
RandomDraws == {0, RANDOM_THRESHOLD, RANDOM_THRESHOLD + 1, 99}

MsgSimulatedError == "Erro simulado do servidor"

SubmitInputs ==
    [ name : CallsInputs("name"),
      phone : CallsInputs("phone"),
      email : CallsInputs("email"),
      password : CallsInputs("password") ]

\* The promise of a call that was not made yet. random is the draw of the
\* callback (-1 before it), settled counts the settlements of the promise.
NoPromise ==
    [timer |-> "none", elapsed |-> 0, random |-> -1, state |-> "pending",
     reason |-> "", settled |-> 0]

\* resolve() and reject(reason) of a promise: the first call settles it, any
\* later call does nothing.
Settle(promise, state, reason) ==
    IF promise.state # "pending" THEN promise
    ELSE [promise EXCEPT !.state = state, !.reason = reason,
                         !.settled = promise.settled + 1]

InitSubmitForm ==
    /\ arg \in SubmitInputs
    /\ ret = NoPromise
    /\ done = FALSE
    /\ CtlIdle("registration")

\* submitForm(data): the executor of the promise starts the timer.
CallSubmitForm ==
    /\ ret.timer = "none"
    /\ ret' = [ret EXCEPT !.timer = "armed"]
    /\ UNCHANGED <<arg, done, ctlVars>>

\* Time passes after the call.
ClockAdvances ==
    /\ ret.timer # "none"
    /\ ret.elapsed < MaxElapsed
    /\ ret' = [ret EXCEPT !.elapsed = ret.elapsed + ClockStep]
    /\ UNCHANGED <<arg, done, ctlVars>>

\* A slip: the outcome is decided by the submitted data.
TimerCallbackByData(random) ==
    /\ ret.timer = "armed"
    /\ ret.elapsed >= SUBMIT_DELAY
    /\ ret' = IF arg.name # <<>> /\ random > RANDOM_THRESHOLD
              THEN Settle([ret EXCEPT !.timer = "fired", !.random = random],
                          "fulfilled", "")
              ELSE Settle([ret EXCEPT !.timer = "fired", !.random = random],
                          "rejected", MsgSimulatedError)
    /\ done' = TRUE
    /\ UNCHANGED <<arg, ctlVars>>

\* The callback of setTimeout, run once and not before the delay, and the
\* continuation of the await in the same task.
TimerCallback(random) ==
    /\ ret.timer = "armed"
    /\ ret.elapsed >= SUBMIT_DELAY
    /\ ret' = IF random > RANDOM_THRESHOLD
              THEN Settle([ret EXCEPT !.timer = "fired", !.random = random],
                          "fulfilled", "")
              ELSE Settle([ret EXCEPT !.timer = "fired", !.random = random],
                          "rejected", MsgSimulatedError)
    /\ done' = TRUE
    /\ UNCHANGED <<arg, ctlVars>>

NextSubmitForm ==
    \/ CallSubmitForm
    \/ ClockAdvances
    \/ \E random \in RandomDraws : TimerCallback(random)

SpecSubmitForm == InitSubmitForm /\ [][NextSubmitForm]_vars

\* C27: a call of submitForm has no outcome before its delay has elapsed and
\* at most one afterwards: fulfilled with no reason, or rejected with the
\* reason "Erro simulado do servidor"; which of the two is decided by the
\* random draw alone, whatever the submitted field values; and an outcome,
\* once produced, never changes and is never produced again.
C27_OneOutcomeAfterDelay ==
    /\ [](/\ ret.settled <= 1
          /\ done <=> ret.state # "pending"
          /\ ret.state # "pending" <=> ret.settled = 1
          /\ ret.state # "pending" => ret.elapsed >= SUBMIT_DELAY
          /\ ret.state = "fulfilled" => (ret.reason = "" /\ ret.random > RANDOM_THRESHOLD)
          /\ ret.state = "rejected" =>
                (ret.reason = MsgSimulatedError /\ ret.random \in 0..RANDOM_THRESHOLD))
    /\ [][ret.state # "pending" =>
            (ret'.state = ret.state /\ ret'.reason = ret.reason
             /\ ret'.settled = ret.settled /\ ret'.random = ret.random)]_vars

\* C27 witness: a call with four empty fields was fulfilled, its only
\* outcome, and time went on after it.
C27_Witness ==
    /\ arg = EmptyForm
    /\ done
    /\ ret.state = "fulfilled"
    /\ ret.settled = 1
    /\ ret.timer = "fired"
    /\ ret.elapsed > SUBMIT_DELAY

-----------------------------------------------------------------------------
(* The success of useForm, checked under SpecUseForm *)

\* The place of a call in a sequence of calls, 0 when it is not made.
PlaceOf(effects, call) ==
    IF \E i \in 1..Len(effects) : effects[i] = call
    THEN CHOOSE i \in 1..Len(effects) : effects[i] = call
    ELSE 0

\* C28: in useForm the step that ends a submission with success calls the
\* success callback with the success message, empties the four fields and the
\* error record and clears the loading flag, all in that one step and with no
\* dismissal; the callback is called before the reset.
C28_UseFormSuccessResets ==
    [][lastOp'.op = "resolved" =>
         /\ pending > 0
         /\ modal' = [isVisible |-> TRUE, title |-> "",
                      message |-> "Sua conta foi criada com sucesso. Bem-vindo!"]
         /\ formData' = EmptyForm
         /\ formErrors' = <<>>
         /\ ~loading'
         /\ PlaceOf(ret', "onSuccess") > 0
         /\ PlaceOf(ret', "onSuccess") < PlaceOf(ret', "resetForm")
         /\ PlaceOf(ret', "resetForm") < PlaceOf(ret', "setIsLoading")]_vars

\* C28 witness: a submission has just succeeded: the success message is
\* shown, the fields and the errors are empty, loading is false and the
\* callback came before the reset; no other submission is pending.
C28_Witness ==
    /\ lastOp.op = "resolved"
    /\ pending = 0
    /\ modal.isVisible
    /\ modal.message = "Sua conta foi criada com sucesso. Bem-vindo!"
    /\ formData = EmptyForm
    /\ formErrors = <<>>
    /\ ~loading
    /\ ret = <<"onSuccess", "resetForm", "setIsLoading">>

-----------------------------------------------------------------------------
(* The earliest screen: RegisterForm, with one state per field, Alert.alert *)
(* for its notifications and a timer of 2000 ms that always resolves.        *)

RegisterInputs(field) ==
    CASE field = "name" -> { <<>>, <<" ">>, <<"J", "o">> }
      [] field = "phone" ->
            { <<>>, <<" ">>,
              <<"1", "1", "9", "8", "7", "6", "5", "4", "3", "2", "1">> }
      [] field = "email" -> { <<>>, <<"a", "@", "b", ".", "c">> }
      [] field = "password" -> { <<>>, <<"1", "2", "3", "4", "5", "6">> }

InitRegisterForm ==
    /\ arg = <<>>
    /\ ret = <<>>
    /\ done = FALSE
    /\ CtlIdle("RegisterForm")

\* onChangeText: setName, handlePhoneChange, setEmail, setPassword.
RegisterFormChangeText(field, text) ==
    /\ mounted
    /\ formData' = [formData EXCEPT
                       ![field] = IF field = "phone" THEN formatPhone(text) ELSE text]
    /\ lastOp' = [op |-> "updateField", field |-> field, raw |-> text]
    /\ UNCHANGED <<variant, mounted, formErrors, loading, modal, pending,
                   failedUnedited>>

\* handleSubmit up to the await, from the button, which is disabled while
\* loading: !name || !phone || !email || !password tests the stored strings
\* as they are, with no trimming.
RegisterFormHandleSubmit ==
    /\ mounted
    /\ ~loading
    /\ lastOp' = [op |-> "pressSubmit", field |-> "", raw |-> <<>>]
    /\ IF \E f \in FieldSet : ~Truthy(formData[f])
       THEN /\ modal' = [isVisible |-> TRUE, title |-> "Erro",
                         message |-> "Preencha todos os campos"]
            /\ UNCHANGED <<variant, mounted, formData, formErrors, loading, pending,
                           failedUnedited>>
       ELSE /\ loading' = TRUE
            /\ pending' = pending + 1
            /\ UNCHANGED <<variant, mounted, formData, formErrors, modal,
                           failedUnedited>>

\* handleSubmit after the await: the alert, the four fields emptied, then
\* setLoading(false).
RegisterFormResolves ==
    /\ pending > 0
    /\ pending' = pending - 1
    /\ modal' = [isVisible |-> TRUE, title |-> "Sucesso",
                 message |-> "Dados enviados com sucesso!"]
    /\ formData' = EmptyForm
    /\ loading' = FALSE
    /\ lastOp' = [op |-> "resolved", field |-> "", raw |-> <<>>]
    /\ UNCHANGED <<variant, mounted, formErrors, failedUnedited>>

\* The button of the alert closes it.
RegisterFormCloseAlert ==
    /\ modal.isVisible
    /\ modal' = HiddenModal
    /\ lastOp' = [op |-> "hideModal", field |-> "", raw |-> <<>>]
    /\ UNCHANGED <<variant, mounted, formData, formErrors, loading, pending,
                   failedUnedited>>

NextRegisterForm ==
    \/ /\ \E field \in FieldSet : \E text \in RegisterInputs(field) :
              RegisterFormChangeText(field, text)
       /\ UNCHANGED <<arg, ret, done, calls, successSeen>>
    \/ RegisterFormHandleSubmit /\ UNCHANGED <<arg, ret, done, calls, successSeen>>
    \/ RegisterFormResolves /\ UNCHANGED <<arg, ret, done, calls, successSeen>>
    \/ RegisterFormCloseAlert /\ UNCHANGED <<arg, ret, done, calls, successSeen>>

SpecRegisterForm == InitRegisterForm /\ [][NextRegisterForm]_vars

\* C29 as stated: a submit with a name, or a phone, that is empty after
\* trimming starts no submission and leaves the loading flag false, in the
\* earliest RegisterForm as in every other variant.
C29_OriginalBlankNameStartsNothing ==
    [][(lastOp'.op \in SubmitOps
          /\ (AllSpaces(formData.name) \/ AllSpaces(formData.phone))) =>
         (pending' = pending /\ ~loading')]_vars

=============================================================================
